---------------------------- MODULE Spec2Model ----------------------------
(***************************************************************************)
(* WebviewService (packages/main/src/services/WebviewService.ts): the      *)
(* controller that owns the embedded WebContentsView, the proxy rule and   *)
(* the ad blocker of the shared session, and the bridge from navigation    *)
(* and sniffing events to the host windows and the video repository.       *)
(*                                                                         *)
(* Strings the code computes with (proxy addresses, video names) are       *)
(* sequences of one-character strings, so that prefixing, suffixing and    *)
(* the regular-expression test are computed, not assumed.                  *)
(***************************************************************************)
EXTENDS Naturals, Sequences, FiniteSets

\* ------------------------------------------------------------------ bounds
\* How many WebContentsView objects may be constructed in one run.
MaxViews == 2
\* How many committed history entries a view's webContents is followed for.
MaxEntries == 2
\* How many "source" events the sniffing helper emits in one run.
MaxSources == 2
\* The largest value Date.now() takes in one run.
MaxNow == 1

\* ------------------------------------------------------------------ state
VARIABLES
    view,         \* this.view: 0 is null, n > 0 is the n-th WebContentsView
    nviews,       \* number of WebContentsView objects constructed so far
    closed,       \* the views whose webContents.close() was called
    look,         \* the current view's [bg, bounds, ua, muted]
    entries,      \* committed history entries of the current view's webContents
    pending,      \* a navigation of the current view is in flight
    browserWin,   \* this.browserWindow.window is not null
    mainWin,      \* this.mainWindow.window is not null
    children,     \* the windows whose contentView has this.view as a child
    proxyRules,   \* proxyRules of session.fromPartition(PERSIST_WEBVIEW)
    blocker,      \* this.blocker: "pending" (undefined, load running),
                  \* "failed" (undefined, load rejected), "loaded"
    blocking,     \* blocker.isBlockingEnabled(session)
    store,        \* the persisted settings read at run time
    handlers,     \* the onSource invocations, one per emitted "source" event
    repo,         \* the names of the videos of the repository, oldest first
    now,          \* Date.now()
    injecting,    \* an onDidNavigate invocation is suspended at its await of
                  \* executeJavaScript
    op,           \* the operation or handler step taken last: [name, arg]
    ret,          \* what it returned or threw
    effects       \* the calls it made on its collaborators, in order

viewVars == <<view, nviews, closed, look, entries, pending>>
winVars == <<browserWin, mainWin, children>>
policyVars == <<proxyRules, blocker, blocking>>
sniffVars == <<handlers, repo, now>>
navVars == <<injecting>>
obsVars == <<op, ret, effects>>
vars == <<viewVars, winVars, policyVars, store, sniffVars, navVars, obsVars>>

\* ------------------------------------------------------------------ text
HTTP == <<"h", "t", "t", "p", ":", "/", "/">>
HTTPS == <<"h", "t", "t", "p", "s", ":", "/", "/">>
StrEmpty == <<>>
AddrBare == <<"1", ".", "2", ".", "3", ".", "4", ":", "8", "0", "8", "0">>
AddrShort == <<"a", ":", "1">>
AddrHttp == HTTP \o AddrShort
AddrHttps == HTTPS \o AddrShort
AddrSocks == <<"s", "o", "c", "k", "s", "5", ":", "/", "/">> \o AddrShort

\* The proxy addresses a caller passes to setProxy.
Addresses == {StrEmpty, AddrBare, AddrShort, AddrHttp, AddrHttps, AddrSocks}

\* s contains pat as a substring.
Contains(s, pat) ==
    \E i \in 1..(Len(s) + 1) :
        /\ i + Len(pat) - 1 <= Len(s)
        /\ SubSeq(s, i, i + Len(pat) - 1) = pat

\* Occurrences of pat in s.
Count(s, pat) ==
    Cardinality({i \in 1..Len(s) :
        /\ i + Len(pat) - 1 <= Len(s)
        /\ SubSeq(s, i, i + Len(pat) - 1) = pat})

\* /https?:\/\//.test(proxy): an unanchored search for http:// or https://
ProxyRegexTest(proxy) == Contains(proxy, HTTP) \/ Contains(proxy, HTTPS)

B2S(b) == IF b THEN "true" ELSE "false"

\* One call on a collaborator: the object, the method, the argument as text.
Call(to, call, arg) == [to |-> to, call |-> call, arg |-> arg]

LogError(msg) == Call("logger", "error", <<msg>>)
LogInfo(msg) == Call("logger", "info", <<msg>>)

\* ------------------------------------------------------------------ settings
\* this.store: the persisted settings the service reads while it runs.
Settings == [blockAds : BOOLEAN, useExtension : BOOLEAN, isMobile : BOOLEAN]

\* Steps of the environment leave no call behind.
Env(name) ==
    /\ op' = [name |-> name, arg |-> <<>>]
    /\ ret' = "env"
    /\ effects' = <<>>

\* The user changes one persisted setting.
StoreSet(key) ==
    /\ store' = [store EXCEPT ![key] = ~store[key]]
    /\ Env("store.set")
    /\ UNCHANGED <<viewVars, winVars, policyVars, sniffVars, navVars>>

\* ------------------------------------------------------------------ proxy
\* enableProxy without its test for an empty address.
enableProxy_NoEmptyTest(rule, proxy) ==
    LET p == IF ~ProxyRegexTest(proxy) THEN HTTP \o proxy ELSE proxy
    IN  [rule |-> p,
         eff |-> <<Call("session", "setProxy", p), LogInfo("[proxy] on")>>]

\* enableProxy(proxy) on a session whose rule is rule.
enableProxy(rule, proxy) ==
    IF proxy = StrEmpty
    THEN [rule |-> rule, eff |-> <<LogError("[proxy] empty address")>>]
    ELSE LET p == IF ~ProxyRegexTest(proxy) THEN HTTP \o proxy ELSE proxy
         IN  [rule |-> p,
              eff |-> <<Call("session", "setProxy", p), LogInfo("[proxy] on")>>]

disableProxy(rule) ==
    [rule |-> StrEmpty,
     eff |-> <<Call("session", "setProxy", StrEmpty), LogInfo("[proxy] off")>>]

setProxy(rule, useProxy, proxy) ==
    IF useProxy THEN enableProxy(rule, proxy) ELSE disableProxy(rule)

SetProxy(useProxy, proxy) ==
    LET r == setProxy(proxyRules, useProxy, proxy)
    IN  /\ proxyRules' = r.rule
        /\ op' = [name |-> "setProxy", arg |-> <<B2S(useProxy), proxy>>]
        /\ ret' = "undefined"
        /\ effects' = r.eff
        /\ UNCHANGED <<viewVars, winVars, blocker, blocking, store, sniffVars, navVars>>

\* ------------------------------------------------------------------ blocker
\* enableBlocking without its test of this.blocker.
enableBlocking_NoInitTest(bl, on) ==
    [blocking |-> TRUE,
     eff |-> <<Call("blocker", "enableBlockingInSession", <<>>),
               LogInfo("enable blocker")>>]

\* enableBlocking() when this.blocker is bl and blocking of the session is on.
enableBlocking(bl, on) ==
    IF bl # "loaded"
    THEN [blocking |-> on, eff |-> <<LogError("enable blocker: not initialised")>>]
    ELSE [blocking |-> TRUE,
          eff |-> <<Call("blocker", "enableBlockingInSession", <<>>),
                    LogInfo("enable blocker")>>]

\* disableBlocking without its isBlockingEnabled test.
disableBlocking_NoEnabledTest(bl, on) ==
    IF bl # "loaded"
    THEN [blocking |-> on, eff |-> <<LogError("disable blocker: not initialised")>>]
    ELSE [blocking |-> FALSE,
          eff |-> <<Call("blocker", "disableBlockingInSession", <<>>),
                    LogInfo("disable blocker")>>]

disableBlocking(bl, on) ==
    IF bl # "loaded"
    THEN [blocking |-> on, eff |-> <<LogError("disable blocker: not initialised")>>]
    ELSE IF ~on
    THEN [blocking |-> on, eff |-> <<>>]
    ELSE [blocking |-> FALSE,
          eff |-> <<Call("blocker", "disableBlockingInSession", <<>>),
                    LogInfo("disable blocker")>>]

setBlocking(bl, on, enable) ==
    IF enable THEN enableBlocking(bl, on) ELSE disableBlocking(bl, on)

SetBlocking(enable) ==
    LET r == setBlocking(blocker, blocking, enable)
    IN  /\ blocking' = r.blocking
        /\ op' = [name |-> "setBlocking", arg |-> <<B2S(enable)>>]
        /\ ret' = "undefined"
        /\ effects' = r.eff
        /\ UNCHANGED <<viewVars, winVars, proxyRules, blocker, store, sniffVars, navVars>>

\* initBlocker() applying the setting before this.blocker is assigned.
InitBlockerResolve_ApplyFirst ==
    /\ blocker = "pending"
    /\ LET r == setBlocking(blocker, blocking, store.blockAds)
       IN  /\ blocker' = "loaded"
           /\ blocking' = r.blocking
           /\ op' = [name |-> "initBlocker.resolve", arg |-> <<B2S(store.blockAds)>>]
           /\ ret' = "undefined"
           /\ effects' = r.eff
    /\ UNCHANGED <<viewVars, winVars, proxyRules, store, sniffVars, navVars>>

\* initBlocker() resumes after its await: the rule set is there, the setting
\* is read now and applied.
InitBlockerResolve ==
    /\ blocker = "pending"
    /\ LET r == setBlocking("loaded", blocking, store.blockAds)
       IN  /\ blocker' = "loaded"
           /\ blocking' = r.blocking
           /\ op' = [name |-> "initBlocker.resolve", arg |-> <<B2S(store.blockAds)>>]
           /\ ret' = "undefined"
           /\ effects' = r.eff
    /\ UNCHANGED <<viewVars, winVars, proxyRules, store, sniffVars, navVars>>

\* The fetch of the rule set rejects: initBlocker() ends there, this.blocker
\* stays undefined.
InitBlockerReject ==
    /\ blocker = "pending"
    /\ blocker' = "failed"
    /\ op' = [name |-> "initBlocker.reject", arg |-> <<>>]
    /\ ret' = "rejected"
    /\ effects' = <<>>
    /\ UNCHANGED <<viewVars, winVars, proxyRules, blocking, store, sniffVars, navVars>>

\* The getter taking the main window first.
window_MainFirst ==
    IF mainWin THEN "main" ELSE IF browserWin THEN "browser" ELSE "NoHostWindow"

\* ------------------------------------------------------------------ windows
\* get window(): the overlay (browser) window when there is one, else the main
\* window, else the getter throws.
window ==
    IF browserWin THEN "browser" ELSE IF mainWin THEN "main" ELSE "NoHostWindow"

\* The channels sendToWindow is called with.
Channels == {"channel"}

BrowserWinOpen ==
    /\ ~browserWin /\ browserWin' = TRUE
    /\ Env("browserWindow.open")
    /\ UNCHANGED <<viewVars, mainWin, children, policyVars, store, sniffVars, navVars>>

\* A window that goes away takes its contentView and its children with it.
BrowserWinClose ==
    /\ browserWin /\ browserWin' = FALSE
    /\ children' = children \ {"browser"}
    /\ Env("browserWindow.close")
    /\ UNCHANGED <<viewVars, mainWin, policyVars, store, sniffVars, navVars>>

MainWinOpen ==
    /\ ~mainWin /\ mainWin' = TRUE
    /\ Env("mainWindow.open")
    /\ UNCHANGED <<viewVars, browserWin, children, policyVars, store, sniffVars, navVars>>

MainWinClose ==
    /\ mainWin /\ mainWin' = FALSE
    /\ children' = children \ {"main"}
    /\ Env("mainWindow.close")
    /\ UNCHANGED <<viewVars, browserWin, policyVars, store, sniffVars, navVars>>

\* ------------------------------------------------------------------ view
Rects == {"r0", "r1"}
Colors == {"#141414", "#fff"}
Urls == {"u1", "u2"}
\* NavigationInfo: <<title, url>> as getTitle() and getURL() give them.
Infos == {<<"t1", "u1">>, <<"t2", "u2">>}
NoLook == [bg |-> "none", bounds |-> "none", ua |-> "none", muted |-> FALSE]
NoActiveView == "NoActiveView"
NoHostWindow == "NoHostWindow"

UserAgent(isMobile) == IF isMobile THEN "mobileUA" ELSE "pcUA"

\* The view part of a step's outcome.
ViewIs(v, n, cl, lk, en, pe) ==
    /\ view' = v /\ nviews' = n /\ closed' = cl
    /\ look' = lk /\ entries' = en /\ pending' = pe

Did(name, arg, r, eff) ==
    /\ op' = [name |-> name, arg |-> arg]
    /\ ret' = r
    /\ effects' = eff

\* init(): a new WebContentsView replaces this.view, whatever it was; dark is
\* nativeTheme.shouldUseDarkColors.
init(dark) ==
    LET bg == IF dark THEN "#141414" ELSE "#fff"
        ua == UserAgent(store.isMobile)
    IN  [view |-> nviews + 1,
         look |-> [bg |-> bg, bounds |-> "r0", ua |-> ua, muted |-> TRUE],
         eff |-> <<Call("view", "new WebContentsView", <<>>),
                   Call("view", "setBackgroundColor", <<bg>>),
                   Call("view", "webContents.setAudioMuted", <<"true">>),
                   Call("view", "webContents.setUserAgent", <<ua>>),
                   LogInfo("user-agent set"),
                   Call("view", "webContents.on", <<"did-navigate">>),
                   Call("view", "webContents.on", <<"did-fail-load">>),
                   Call("view", "webContents.setWindowOpenHandler", <<>>)>>]

InitView ==
    /\ nviews < MaxViews
    /\ \E dark \in BOOLEAN :
         LET r == init(dark)
         IN  /\ ViewIs(r.view, nviews + 1, closed, r.look, 0, FALSE)
             /\ Did("init", <<>>, "undefined", r.eff)
    /\ children' = {}
    /\ UNCHANGED <<browserWin, mainWin, policyVars, store, sniffVars, navVars>>

\* destroyView(): the state and the calls it leaves, or the fault of the
\* window getter, which is evaluated only when this.view is set. children
\* follows this.view alone: with no view there is nothing to follow.
destroyView ==
    IF view # 0 /\ window = NoHostWindow
    THEN [fault |-> NoHostWindow, view |-> view, closed |-> closed,
          children |-> children, eff |-> <<>>]
    ELSE IF view # 0
    THEN [fault |-> "none", view |-> 0, closed |-> closed \cup {view},
          children |-> {},
          eff |-> <<Call("view", "webContents.close", <<>>),
                    Call(window, "contentView.removeChildView", <<>>)>>]
    ELSE [fault |-> "none", view |-> 0, closed |-> closed,
          children |-> children, eff |-> <<>>]

DestroyView ==
    LET r == destroyView
    IN  /\ IF r.fault = "none"
           THEN ViewIs(0, nviews, r.closed, NoLook, 0, FALSE)
           ELSE UNCHANGED viewVars
        /\ children' = r.children
        /\ Did("destroyView", <<>>,
               IF r.fault = "none" THEN "undefined" ELSE r.fault, r.eff)
        /\ UNCHANGED <<browserWin, mainWin, policyVars, store, sniffVars, navVars>>

\* loadURL(url) starting the navigation before it stops the one under way.
loadURL_LoadFirst(url, dark) ==
    LET r == init(dark)
        create == view = 0
        eff == <<Call("view", "webContents.loadURL", <<url>>),
                 Call("view", "webContents.stop", <<>>)>>
    IN  /\ create => nviews < MaxViews
        /\ IF create
           THEN ViewIs(r.view, nviews + 1, closed, r.look, 0, TRUE)
           ELSE ViewIs(view, nviews, closed, look, entries, TRUE)
        /\ effects' = (IF create THEN r.eff ELSE <<>>) \o eff

\* loadURL(url): the view part and the calls.
loadURL(url, dark) ==
    LET r == init(dark)
        create == view = 0
        eff == <<Call("view", "webContents.stop", <<>>),
                 Call("view", "webContents.loadURL", <<url>>)>>
    IN  /\ create => nviews < MaxViews
        /\ IF create
           THEN ViewIs(r.view, nviews + 1, closed, r.look, 0, TRUE)
           ELSE ViewIs(view, nviews, closed, look, entries, TRUE)
        /\ effects' = (IF create THEN r.eff ELSE <<>>) \o eff

LoadURL(url) ==
    /\ \E dark \in BOOLEAN : loadURL(url, dark)
    /\ op' = [name |-> "loadURL", arg |-> <<url>>]
    /\ ret' = "undefined"
    /\ UNCHANGED <<winVars, policyVars, store, sniffVars, navVars>>

\* An operation that throws before it touched anything.
Throws(name, arg, fault) ==
    /\ Did(name, arg, fault, <<>>)
    /\ UNCHANGED <<viewVars, winVars, policyVars, store, sniffVars, navVars>>

\* An operation that returns at its first line.
Returns(name, arg) ==
    /\ Did(name, arg, "undefined", <<>>)
    /\ UNCHANGED <<viewVars, winVars, policyVars, store, sniffVars, navVars>>

canGoBack == entries >= 2

GoBack ==
    IF view = 0 THEN Throws("goBack", <<>>, NoActiveView)
    ELSE IF canGoBack
    THEN /\ ViewIs(view, nviews, closed, look, entries - 1, TRUE)
         /\ Did("goBack", <<>>, "true", <<Call("view", "webContents.goBack", <<>>)>>)
         /\ UNCHANGED <<winVars, policyVars, store, sniffVars, navVars>>
    ELSE LET r == destroyView
         IN  /\ IF r.fault = "none"
                THEN ViewIs(0, nviews, r.closed, NoLook, 0, FALSE)
                ELSE UNCHANGED viewVars
             /\ children' = r.children
             /\ Did("goBack", <<>>, IF r.fault = "none" THEN "false" ELSE r.fault, r.eff)
             /\ UNCHANGED <<browserWin, mainWin, policyVars, store, sniffVars, navVars>>

Reload ==
    IF view = 0 THEN Throws("reload", <<>>, NoActiveView)
    ELSE /\ ViewIs(view, nviews, closed, look, entries, TRUE)
         /\ Did("reload", <<>>, "undefined", <<Call("view", "webContents.reload", <<>>)>>)
         /\ UNCHANGED <<winVars, policyVars, store, sniffVars, navVars>>

\* clearHistory() keeps the page that is shown.
Cleared(n) == IF n > 1 THEN 1 ELSE n

GoHome ==
    IF view = 0 THEN Throws("goHome", <<>>, NoActiveView)
    ELSE LET r == destroyView
             eff == <<Call("view", "webContents.stop", <<>>),
                      Call("view", "webContents.clearHistory", <<>>)>>
         IN  /\ IF r.fault = "none"
                THEN ViewIs(0, nviews, r.closed, NoLook, 0, FALSE)
                ELSE ViewIs(view, nviews, closed, look, Cleared(entries), FALSE)
             /\ children' = r.children
             /\ Did("goHome", <<>>, IF r.fault = "none" THEN "undefined" ELSE r.fault,
                    eff \o r.eff)
             /\ UNCHANGED <<browserWin, mainWin, policyVars, store, sniffVars, navVars>>

GetBounds ==
    IF view = 0 THEN Throws("getBounds", <<>>, NoActiveView)
    ELSE /\ Did("getBounds", <<>>, look.bounds, <<>>)
         /\ UNCHANGED <<viewVars, winVars, policyVars, store, sniffVars, navVars>>

SetBounds(bounds) ==
    IF view = 0 THEN Returns("setBounds", <<bounds>>)
    ELSE /\ look' = [look EXCEPT !.bounds = bounds]
         /\ Did("setBounds", <<bounds>>, "undefined",
                <<Call("view", "setBounds", <<bounds>>)>>)
         /\ UNCHANGED <<view, nviews, closed, entries, pending,
                        winVars, policyVars, store, sniffVars, navVars>>

SetBackgroundColor(color) ==
    IF view = 0 THEN Returns("setBackgroundColor", <<color>>)
    ELSE /\ look' = [look EXCEPT !.bg = color]
         /\ Did("setBackgroundColor", <<color>>, "undefined",
                <<Call("view", "setBackgroundColor", <<color>>)>>)
         /\ UNCHANGED <<view, nviews, closed, entries, pending,
                        winVars, policyVars, store, sniffVars, navVars>>

\* show() resolving the host window before it looks at this.view.
Show_WindowFirst ==
    IF window = NoHostWindow THEN Throws("show", <<>>, NoHostWindow)
    ELSE IF view = 0 THEN Returns("show", <<>>)
    ELSE /\ children' = children \cup {window}
         /\ Did("show", <<>>, "undefined",
                <<Call(window, "contentView.addChildView", <<>>)>>)
         /\ UNCHANGED <<viewVars, browserWin, mainWin, policyVars, store, sniffVars, navVars>>

Show ==
    IF view = 0 THEN Returns("show", <<>>)
    ELSE IF window = NoHostWindow THEN Throws("show", <<>>, NoHostWindow)
    ELSE /\ children' = children \cup {window}
         /\ Did("show", <<>>, "undefined",
                <<Call(window, "contentView.addChildView", <<>>)>>)
         /\ UNCHANGED <<viewVars, browserWin, mainWin, policyVars, store, sniffVars, navVars>>

Hide ==
    IF view = 0 THEN Returns("hide", <<>>)
    ELSE IF window = NoHostWindow THEN Throws("hide", <<>>, NoHostWindow)
    ELSE /\ children' = children \ {window}
         /\ Did("hide", <<>>, "undefined",
                <<Call(window, "contentView.removeChildView", <<>>)>>)
         /\ UNCHANGED <<viewVars, browserWin, mainWin, policyVars, store, sniffVars, navVars>>

\* sendToWindow(channel, ...args): the window getter is its first call.
SendToWindow(channel) ==
    IF window = NoHostWindow THEN Throws("sendToWindow", <<channel>>, NoHostWindow)
    ELSE /\ Did("sendToWindow", <<channel>>, "undefined",
                <<Call(window, "webContents.send", <<channel>>)>>)
         /\ UNCHANGED <<viewVars, winVars, policyVars, store, sniffVars, navVars>>

SetUserAgent(isMobile) ==
    IF view = 0 THEN Returns("setUserAgent", <<B2S(isMobile)>>)
    ELSE /\ look' = [look EXCEPT !.ua = UserAgent(isMobile)]
         /\ Did("setUserAgent", <<B2S(isMobile)>>, "undefined",
                <<Call("view", "webContents.setUserAgent", <<UserAgent(isMobile)>>),
                  LogInfo("user-agent set")>>)
         /\ UNCHANGED <<view, nviews, closed, entries, pending,
                        winVars, policyVars, store, sniffVars, navVars>>

CaptureView ==
    IF view = 0 THEN Throws("captureView", <<>>, NoActiveView)
    ELSE /\ Did("captureView", <<>>, "image",
                <<Call("view", "webContents.capturePage", <<>>)>>)
         /\ UNCHANGED <<viewVars, winVars, policyVars, store, sniffVars, navVars>>

\* ------------------------------------------------------------------ events
\* What the handler does about the side-channel script: the development
\* loader, the plugin payload, or nothing because reading the payload threw.
Injections == {"dev", "plugin", "readFail"}
Failures == {<<"-3", "ERR_ABORTED">>, <<"-105", "ERR_NAME_NOT_RESOLVED">>}

injectScript(inj) ==
    IF inj = "readFail" THEN <<>>
    ELSE <<Call("view", "webContents.executeJavaScript", <<inj>>)>>

\* The handler is suspended when it has called executeJavaScript.
Awaits(eff) ==
    \E k \in 1..Len(eff) : eff[k].call = "webContents.executeJavaScript"

\* How the promise of executeJavaScript settles.
Settlements == {"resolved", "rejected"}

\* onDidNavigate telling the host window before it resets the detector.
onDidNavigate_NotifyFirst(info, inj) ==
    LET reset == <<Call("sniffingHelper", "reset", info)>>
    IN  IF window = NoHostWindow
        THEN [fault |-> NoHostWindow, eff |-> <<>>]
        ELSE [fault |-> "none",
              eff |-> <<Call(window, "webContents.send", <<"webview-did-navigate">> \o info)>>
                      \o reset
                      \o injectScript(inj)]

\* onDidNavigate without its try/catch: reading the payload throws out of
\* the handler.
onDidNavigate_NoCatch(info, inj) ==
    LET reset == <<Call("sniffingHelper", "reset", info)>>
    IN  IF window = NoHostWindow
        THEN [fault |-> NoHostWindow, eff |-> reset]
        ELSE [fault |-> IF inj = "readFail" THEN "ENOENT" ELSE "none",
              eff |-> reset
                      \o <<Call(window, "webContents.send", <<"webview-did-navigate">> \o info)>>
                      \o injectScript(inj)]

\* onDidNavigate up to its await, this.view being set: the calls it makes and
\* the fault that ends it, info being the title and the URL of this.view.
onDidNavigate(info, inj) ==
    LET reset == <<Call("sniffingHelper", "reset", info)>>
    IN  IF window = NoHostWindow
        THEN [fault |-> NoHostWindow, eff |-> reset]
        ELSE [fault |-> "none",
              eff |-> reset
                      \o <<Call(window, "webContents.send", <<"webview-did-navigate">> \o info)>>
                      \o injectScript(inj)]

\* A view other than this.view was constructed: replaced by init() or
\* destroyed, it may still deliver an event.
OtherViews == nviews > (IF view = 0 THEN 0 ELSE 1)

\* An event comes from this.view (own) or from another view.
From(own) == IF own THEN view # 0 ELSE OtherViews

\* A webContents emits did-navigate. When it is that of this.view, its
\* navigation has committed, as a new history entry (fresh) or on an entry it
\* already had (back, reload).
\* The history of another view is not followed, so fresh says nothing
\* there and is fixed.
DidNavigate(own, info, fresh, inj) ==
    /\ From(own)
    /\ own => (IF fresh THEN entries < MaxEntries ELSE entries > 0)
    /\ ~own => fresh
    /\ IF own
       THEN ViewIs(view, nviews, closed, look,
                   IF fresh THEN entries + 1 ELSE entries, FALSE)
       ELSE UNCHANGED viewVars
    /\ IF view = 0
       THEN /\ Did("did-navigate", info, "undefined", <<>>)
            /\ UNCHANGED injecting
       ELSE LET r == onDidNavigate(info, inj)
            IN  /\ Did("did-navigate", info,
                       IF r.fault # "none" THEN r.fault
                       ELSE IF Awaits(r.eff) THEN "pending" ELSE "undefined",
                       r.eff)
                /\ injecting' = (injecting \/ Awaits(r.eff))
    /\ UNCHANGED <<winVars, policyVars, store, sniffVars>>

\* The promise of executeJavaScript settles and a suspended onDidNavigate
\* resumes: past the try when it resolved, in the empty catch when it
\* rejected, and at its end either way. Other invocations may still be
\* suspended.
InjectionSettles(outcome) ==
    /\ injecting
    /\ injecting' \in BOOLEAN
    /\ Did("did-navigate.injected", <<outcome>>, "undefined", <<>>)
    /\ UNCHANGED <<viewVars, winVars, policyVars, store, sniffVars>>

\* onDidFailLoad: the window getter is its first call.
DidFailLoad(own, failure) ==
    /\ From(own)
    /\ IF own
       THEN ViewIs(view, nviews, closed, look, entries, FALSE)
       ELSE UNCHANGED viewVars
    /\ IF window = NoHostWindow
       THEN Did("did-fail-load", failure, NoHostWindow, <<>>)
       ELSE Did("did-fail-load", failure, "undefined",
                <<Call(window, "webContents.send", <<"webview-fail-load">> \o failure)>>)
    /\ UNCHANGED <<winVars, policyVars, store, sniffVars, navVars>>

\* onOpenNewWindow: the window-open handler of a view that was constructed.
OpenNewWindow(url) ==
    /\ nviews > 0
    /\ \E dark \in BOOLEAN : loadURL(url, dark)
    /\ op' = [name |-> "window-open", arg |-> <<url>>]
    /\ ret' = "deny"
    /\ UNCHANGED <<winVars, policyVars, store, sniffVars, navVars>>

\* ------------------------------------------------------------------ sniffing
\* The names the sniffing helper gives its candidates.
SourceNames == {<<"a">>, <<"b">>}

Digit(d) == <<"0", "1", "2", "3", "4", "5", "6", "7", "8", "9">>[d + 1]

RECURSIVE Dec(_)
\* The decimal text of n, as a template literal writes a number.
Dec(n) == IF n < 10 THEN <<Digit(n)>> ELSE Dec(n \div 10) \o <<Digit(n % 10)>>

\* `${item.name}-${Date.now()}`
Renamed(name, t) == name \o <<"-">> \o Dec(t)

\* VideoRepository.findVideoByName: a video of that name, if there is one.
findVideoByName(videos, name) == \E k \in 1..Len(videos) : videos[k] = name

\* VideoRepository.addVideo: the video is added and returned.
addVideo(videos, name) == Append(videos, name)

\* Time passes.
Tick ==
    /\ now < MaxNow
    /\ now' = now + 1
    /\ Env("tick")
    /\ UNCHANGED <<viewVars, winVars, policyVars, store, handlers, repo, navVars>>

Handler(i, pc, name) ==
    handlers' = [handlers EXCEPT ![i] = [pc |-> pc, name |-> name]]

\* onSource handing the item to the extension and storing it as well.
OnSource_StoresToo(i, name) ==
    /\ handlers[i].pc = "new"
    /\ i > 1 => handlers[i - 1].pc # "new"
    /\ IF view = 0
       THEN /\ Handler(i, "done", StrEmpty)
            /\ Did("source", name, "undefined", <<>>)
       ELSE /\ Handler(i, "find", name)
            /\ Did("source", name, "pending",
                   (IF store.useExtension
                    THEN <<Call("view", "webContents.send",
                                <<"webview-link-message">> \o name)>>
                    ELSE <<>>)
                   \o <<Call("videoRepository", "findVideoByName", name)>>)
    /\ UNCHANGED <<viewVars, winVars, policyVars, store, repo, now, navVars>>

\* The helper emits its i-th "source" event: onSource runs up to its first
\* await, or to its end when there is no view or the extension takes the item.
OnSource(i, name) ==
    /\ handlers[i].pc = "new"
    /\ i > 1 => handlers[i - 1].pc # "new"
    /\ IF view = 0
       THEN /\ Handler(i, "done", StrEmpty)
            /\ Did("source", name, "undefined", <<>>)
       ELSE IF store.useExtension
       THEN /\ Handler(i, "done", StrEmpty)
            /\ Did("source", name, "undefined",
                   <<Call("view", "webContents.send", <<"webview-link-message">> \o name)>>)
       ELSE /\ Handler(i, "find", name)
            /\ Did("source", name, "pending",
                   <<Call("videoRepository", "findVideoByName", name)>>)
    /\ UNCHANGED <<viewVars, winVars, policyVars, store, repo, now, navVars>>

\* The name onSource gives the item once the lookup has answered.
nameToAdd(name, video) == IF video THEN Renamed(name, now) ELSE name

\* An await of a repository call is one step: the repository does the work
\* and the handler resumes with the answer. Other handlers and operations
\* run between the steps of a handler.
\*
\* The lookup of the i-th handler answers and the handler resumes: it renames
\* the item when a video was found and calls addVideo.
OnSourceFound(i) ==
    /\ handlers[i].pc = "find"
    /\ LET name == nameToAdd(handlers[i].name,
                             findVideoByName(repo, handlers[i].name))
       IN  /\ Handler(i, "add", name)
           /\ Did("source.found", name, "pending",
                  <<Call("videoRepository", "addVideo", name)>>)
    /\ UNCHANGED <<viewVars, winVars, policyVars, store, repo, now, navVars>>

\* The notification sent to the window the getter resolves, not to the main
\* window.
notifyMain_ToHostWindow(res) ==
    IF window = NoHostWindow THEN <<>>
    ELSE <<Call(window, "webContents.send", <<"download-item-notifier">> \o res)>>

\* The notification of the main window, res being the inserted video.
notifyMain(res) ==
    IF ~mainWin THEN <<>>
    ELSE <<Call("main", "webContents.send", <<"download-item-notifier">> \o res)>>

\* The insert of the i-th handler is done and the handler resumes with the
\* inserted video: it tells the main window.
OnSourceAdded(i) ==
    /\ handlers[i].pc = "add"
    /\ repo' = addVideo(repo, handlers[i].name)
    /\ Handler(i, "done", StrEmpty)
    /\ Did("source.added", handlers[i].name, "undefined", notifyMain(handlers[i].name))
    /\ UNCHANGED <<viewVars, winVars, policyVars, store, now, navVars>>

\* ------------------------------------------------------------------ start
\* The state the constructor leaves: no view, the rule-set load running, the
\* "source" listener installed, the persisted proxy applied to a fresh session.
Constructed(useProxy, proxy) ==
    /\ view = 0 /\ nviews = 0 /\ closed = {}
    /\ look = NoLook
    /\ entries = 0 /\ pending = FALSE
    /\ children = {}
    /\ LET r == setProxy(StrEmpty, useProxy, proxy)
       IN  /\ proxyRules = r.rule
           /\ op = [name |-> "constructor", arg |-> <<B2S(useProxy), proxy>>]
           /\ effects = r.eff
    /\ ret = "undefined"
    /\ blocker = "pending" /\ blocking = FALSE
    /\ handlers = [i \in 1..MaxSources |-> [pc |-> "new", name |-> StrEmpty]]
    /\ repo = <<>> /\ now = 0
    /\ injecting = FALSE

\* Each specification follows one part of the service and starts from the
\* constructed states that differ in what that part reads.
Init ==
    /\ Constructed(FALSE, StrEmpty)
    /\ browserWin \in BOOLEAN /\ mainWin \in BOOLEAN
    /\ store \in {st \in Settings : ~st.blockAds /\ ~st.useExtension}

InitSniff ==
    /\ Constructed(FALSE, StrEmpty)
    /\ browserWin \in BOOLEAN /\ mainWin \in BOOLEAN
    /\ store \in {st \in Settings : ~st.blockAds /\ ~st.isMobile}

InitPolicy ==
    /\ \E useProxy \in BOOLEAN, proxy \in Addresses : Constructed(useProxy, proxy)
    /\ browserWin = FALSE /\ mainWin = FALSE
    /\ store \in {st \in Settings : ~st.useExtension /\ ~st.isMobile}

\* The network policy of the shared session: proxy and blocker.
NextPolicy ==
    \/ \E useProxy \in BOOLEAN, proxy \in Addresses : SetProxy(useProxy, proxy)
    \/ \E enable \in BOOLEAN : SetBlocking(enable)
    \/ InitBlockerResolve
    \/ InitBlockerReject
    \/ StoreSet("blockAds")

SpecPolicy == InitPolicy /\ [][NextPolicy]_vars

\* The view, its navigation events and the host windows.
NextView ==
    \/ InitView
    \/ DestroyView
    \/ \E url \in Urls : LoadURL(url)
    \/ GoBack
    \/ Reload
    \/ GoHome
    \/ GetBounds
    \/ \E bounds \in Rects : SetBounds(bounds)
    \/ \E color \in Colors : SetBackgroundColor(color)
    \/ Show
    \/ Hide
    \/ \E isMobile \in BOOLEAN : SetUserAgent(isMobile)
    \/ CaptureView
    \/ \E channel \in Channels : SendToWindow(channel)
    \/ \E own \in BOOLEAN, info \in Infos, fresh \in BOOLEAN, inj \in Injections :
          DidNavigate(own, info, fresh, inj)
    \/ \E outcome \in Settlements : InjectionSettles(outcome)
    \/ \E own \in BOOLEAN, failure \in Failures : DidFailLoad(own, failure)
    \/ \E url \in Urls : OpenNewWindow(url)
    \/ BrowserWinOpen
    \/ BrowserWinClose
    \/ MainWinOpen
    \/ MainWinClose
    \/ StoreSet("isMobile")

Spec == Init /\ [][NextView]_vars

\* The "source" events of the sniffing helper, with the view coming and
\* going and the windows opening and closing meanwhile.
NextSniff ==
    \/ \E i \in 1..MaxSources, name \in SourceNames : OnSource(i, name)
    \/ \E i \in 1..MaxSources : OnSourceFound(i)
    \/ \E i \in 1..MaxSources : OnSourceAdded(i)
    \/ Tick
    \/ \E url \in Urls : LoadURL(url)
    \/ DestroyView
    \/ BrowserWinOpen
    \/ BrowserWinClose
    \/ MainWinOpen
    \/ MainWinClose
    \/ StoreSet("useExtension")

SpecSniff == InitSniff /\ [][NextSniff]_vars

\* ================================================================== claims
\* ------------------------------------------------------------------ view
\* C1 (as claimed): goBack() on an active view goes back, returns true and
\* keeps the view when it can go back; otherwise it destroys the view, returns
\* false and leaves no view, whatever host windows exist.
C1_GoBackOrLeave ==
    [][(op'.name = "goBack" /\ view # 0) =>
          IF canGoBack
          THEN ret' = "true" /\ view' = view
          ELSE ret' = "false" /\ view' = 0]_vars

\* C2 (as claimed): after destroyView(), from any state, there is no view and
\* no fault other than NoActiveView was raised.
C2_DestroyIsTotal ==
    op.name = "destroyView" => (view = 0 /\ ret \in {"undefined", NoActiveView})

Getters == {"getBounds", "goBack", "reload", "goHome", "captureView"}
Setters == {"setBounds", "setBackgroundColor", "show", "hide", "setUserAgent"}

\* C3: with no view, getBounds, goBack, reload, goHome and captureView throw
\* NoActiveView, the setters, show, hide and setUserAgent return normally, and
\* none of them changes anything or calls anything.
C3_AbsentViewOperations ==
    [][(view = 0 /\ op'.name \in Getters \cup Setters) =>
          /\ ret' = (IF op'.name \in Getters THEN NoActiveView ELSE "undefined")
          /\ effects' = <<>>
          /\ UNCHANGED <<viewVars, winVars, policyVars, store, sniffVars>>]_vars

\* show() has returned with no view and no host window.
C3_Witness ==
    /\ op.name = "show" /\ ret = "undefined"
    /\ view = 0 /\ ~browserWin /\ ~mainWin

IsReset(e, info) == e = Call("sniffingHelper", "reset", info)
IsNavSend(e) ==
    /\ e.call = "webContents.send"
    /\ Len(e.arg) > 0 /\ e.arg[1] = "webview-did-navigate"

\* C10 (as claimed): every did-navigate handled on an active view resets the
\* detector with the navigation's info and then sends webview-did-navigate
\* with the same info to the host window.
C10_ResetAndNotifyAlways ==
    [][(op'.name = "did-navigate" /\ view # 0) =>
          /\ Len(effects') >= 2
          /\ IsReset(effects'[1], op'.arg)
          /\ IsNavSend(effects'[2]) /\ Tail(effects'[2].arg) = op'.arg]_vars

\* C10 (amended): a did-navigate handled on an active view resets the
\* detector first; with a host window it then sends webview-did-navigate with
\* the same info to that window; with none it fails with NoHostWindow after
\* the reset and sends nothing. No step sends webview-did-navigate without
\* the reset with the same info right before it.
C10_ResetBeforeNotify ==
    [][/\ (op'.name = "did-navigate" /\ view # 0) =>
             /\ Len(effects') >= 1 /\ IsReset(effects'[1], op'.arg)
             /\ IF window = NoHostWindow
                THEN ret' = NoHostWindow /\ Len(effects') = 1
                ELSE /\ ret' \in {"undefined", "pending"}
                     /\ Len(effects') >= 2
                     /\ effects'[2] = Call(window, "webContents.send",
                                           <<"webview-did-navigate">> \o op'.arg)
                     /\ \A k \in 3..Len(effects') : ~IsNavSend(effects'[k])
       /\ \A k \in 1..Len(effects') :
             IsNavSend(effects'[k]) =>
                 k > 1 /\ IsReset(effects'[k - 1], Tail(effects'[k].arg))]_vars

\* A did-navigate on an active view has reset the detector and told the host
\* window.
C10_Witness ==
    /\ op.name = "did-navigate" /\ view # 0
    /\ Len(effects) >= 2 /\ IsReset(effects[1], op.arg) /\ IsNavSend(effects[2])
\* ------------------------------------------------------------------ sniffing
\* C4 (as claimed): with useExtension off, whatever the timing of the source
\* events, the videos inserted through sniffing have pairwise distinct names.
C4_InsertedNamesDistinct ==
    \A j, k \in 1..Len(repo) : j # k => repo[j] # repo[k]

IsNotifier(e) ==
    /\ e.call = "webContents.send"
    /\ Len(e.arg) > 0 /\ e.arg[1] = "download-item-notifier"

\* C5 (as claimed): every insert is followed by exactly one
\* download-item-notifier message with the inserted video, sent to the main
\* window.
C5_EveryInsertNotifiesMain ==
    [][(op'.name = "source.added") =>
          effects' = <<Call("main", "webContents.send",
                            <<"download-item-notifier">> \o op'.arg)>>]_vars

\* C5 (amended): a video is inserted only by a source handler that resumes
\* from addVideo; that handler then sends exactly one download-item-notifier
\* message with the inserted video to the main window when the main window
\* exists, and none when it does not. No step sends that message to another
\* window, nor at another time.
C5_InsertNotifiesMainIfPresent ==
    [][/\ (repo' # repo) =>
             /\ op'.name = "source.added"
             /\ repo' = Append(repo, op'.arg)
       /\ (op'.name = "source.added") =>
             /\ repo' = Append(repo, op'.arg)
             /\ effects' = IF mainWin
                           THEN <<Call("main", "webContents.send",
                                       <<"download-item-notifier">> \o op'.arg)>>
                           ELSE <<>>
       /\ \A k \in 1..Len(effects') :
             IsNotifier(effects'[k]) =>
                 op'.name = "source.added" /\ effects'[k].to = "main"]_vars

\* A video was inserted and the main window told while the overlay window is
\* the host window the getter resolves.
C5_Witness ==
    /\ op.name = "source.added"
    /\ browserWin /\ mainWin /\ window = "browser"
    /\ Len(effects) = 1 /\ IsNotifier(effects[1]) /\ effects[1].to = "main"
    /\ Len(repo) > 0 /\ repo[Len(repo)] = op.arg

\* ------------------------------------------------------------------ proxy
SchemeSep == <<":", "/", "/">>
HasScheme(a) == Contains(a, SchemeSep)
IsSetProxy(o) == o.name \in {"setProxy", "constructor"}

\* C6 (as claimed): after setProxy(true, address) with a non-empty address the
\* rule is the address itself when it carries a scheme and "http://" + address
\* when it carries none, and the rule is always empty or has exactly one
\* scheme prefix.
C6_RuleIsNormalised ==
    /\ (IsSetProxy(op) /\ op.arg[1] = "true" /\ op.arg[2] # StrEmpty) =>
            proxyRules = (IF HasScheme(op.arg[2]) THEN op.arg[2] ELSE HTTP \o op.arg[2])
    /\ (proxyRules = StrEmpty \/ Count(proxyRules, SchemeSep) = 1)

\* C7: setProxy(true, "") leaves the session's rule as it was, returns
\* normally and does nothing but log one error.
C7_EmptyAddressIsDropped ==
    [][(op'.name = "setProxy" /\ op'.arg = <<"true", StrEmpty>>) =>
          /\ proxyRules' = proxyRules
          /\ ret' = "undefined"
          /\ effects' = <<LogError("[proxy] empty address")>>
          /\ UNCHANGED <<viewVars, winVars, blocker, blocking, store, sniffVars>>]_vars

\* setProxy(true, "") was called on a session that had a rule.
C7_Witness ==
    /\ op.name = "setProxy" /\ op.arg = <<"true", StrEmpty>>
    /\ proxyRules # StrEmpty

\* ------------------------------------------------------------------ blocker
IsLogError(e) == e.to = "logger" /\ e.call = "error"

\* C8: a setBlocking call made while the rule set is not loaded changes
\* nothing, logs one error and returns normally; and nothing remembers it:
\* blocking changes only in a setBlocking call made after the load, to that
\* call's argument, or when the load resolves, to the blockAds setting.
C8_EarlySetBlockingIsDropped ==
    [][/\ (op'.name = "setBlocking" /\ blocker # "loaded") =>
             /\ blocking' = blocking /\ blocker' = blocker
             /\ ret' = "undefined"
             /\ Len(effects') = 1 /\ IsLogError(effects'[1])
       /\ (op'.name = "initBlocker.resolve") => blocking' = store.blockAds
       /\ (blocking' # blocking) =>
             /\ \/ op'.name = "setBlocking" /\ blocker = "loaded"
                \/ op'.name = "initBlocker.resolve"
             /\ op'.arg = <<B2S(blocking')>>]_vars

\* setBlocking(true) has just been dropped while the load was running.
C8_Witness ==
    /\ op.name = "setBlocking" /\ op.arg = <<"true">>
    /\ blocker = "pending" /\ ~blocking
    /\ Len(effects) = 1 /\ IsLogError(effects[1])

IsDisableCall(e) == e.to = "blocker" /\ e.call = "disableBlockingInSession"

\* C9: once the rule set is loaded, after setBlocking(b) blocking is b, and
\* setBlocking(false) on a session that is not blocking makes no disable call.
C9_LoadedSetBlockingApplies ==
    [][(op'.name = "setBlocking" /\ blocker = "loaded") =>
          /\ blocking' = (op'.arg = <<"true">>)
          /\ (op'.arg = <<"false">> /\ ~blocking) =>
                \A k \in 1..Len(effects') : ~IsDisableCall(effects'[k])]_vars

\* setBlocking(false) was called with the rule set loaded and blocking off.
C9_Witness ==
    /\ op.name = "setBlocking" /\ op.arg = <<"false">>
    /\ blocker = "loaded" /\ ~blocking /\ effects = <<>>


\* ------------------------------------------------------------------ loading
IsCall(e, to, call) == e.to = to /\ e.call = call

\* The positions in a step's calls of the calls of that name on the view.
Positions(eff, call) == {k \in 1..Len(eff) : IsCall(eff[k], "view", call)}

\* C11: loadURL(url) does not fail in any state: it returns, the view is set
\* after it, a view is constructed exactly when there was none, the view
\* that was there is kept, and the calls end with one stop and then the one
\* navigation to url.
C11_LoadURLIsTotal ==
    [][(op'.name = "loadURL") =>
          /\ ret' = "undefined"
          /\ view' # 0
          /\ IF view = 0
             THEN nviews' = nviews + 1 /\ view' = nviews'
             ELSE nviews' = nviews /\ view' = view
          /\ Cardinality(Positions(effects', "new WebContentsView"))
                = (IF view = 0 THEN 1 ELSE 0)
          /\ Len(effects') >= 2
          /\ effects'[Len(effects') - 1] = Call("view", "webContents.stop", <<>>)
          /\ effects'[Len(effects')] = Call("view", "webContents.loadURL", op'.arg)
          /\ Cardinality(Positions(effects', "webContents.loadURL")) = 1
          /\ pending']_vars

\* loadURL has run on a view that was there, with no host window.
C11_Witness ==
    /\ op.name = "loadURL" /\ ret = "undefined"
    /\ Len(effects) = 2 /\ view # 0
    /\ ~browserWin /\ ~mainWin

\* ------------------------------------------------------------------ surfaces
\* The views that were constructed and not closed.
OpenSurfaces == {v \in 1..nviews : v \notin closed}

\* C12 (as claimed): a window-open request is answered "deny" and becomes
\* loadURL of its url on the view that is there, which constructs no view
\* while one is set; and no step leaves more than one view that was
\* constructed and not closed.
C12_WindowOpenKeepsOneSurface ==
    [][/\ (op'.name = "window-open") =>
             /\ ret' = "deny"
             /\ Len(effects') >= 2
             /\ effects'[Len(effects') - 1] = Call("view", "webContents.stop", <<>>)
             /\ effects'[Len(effects')] = Call("view", "webContents.loadURL", op'.arg)
             /\ view # 0 => (view' = view /\ nviews' = nviews)
       /\ Cardinality(OpenSurfaces') <= 1]_vars

\* ------------------------------------------------------------------ host window
\* A call on a host window: a message to its webContents, or the view being
\* added to or removed from its contentView.
IsHostCall(e) ==
    /\ e.to \in {"browser", "main", NoHostWindow}
    /\ e.call \in {"webContents.send", "contentView.addChildView",
                    "contentView.removeChildView"}

\* The step reads the window getter: always in onDidFailLoad and
\* sendToWindow, and with a view set in onDidNavigate, show, hide,
\* destroyView, goHome and the goBack that cannot go back.
ResolvesWindow(name) ==
    \/ name \in {"did-fail-load", "sendToWindow"}
    \/ name \in {"did-navigate", "show", "hide", "destroyView", "goHome"} /\ view # 0
    \/ name = "goBack" /\ view # 0 /\ ~canGoBack

\* C13: a step that resolves the host window fails with NoHostWindow exactly
\* when neither window exists; every message to a host window and every
\* attach or detach of the view goes to the overlay window when it exists,
\* and to the main window only when the overlay does not exist, as the
\* windows are during that step.
C13_HostWindowResolution ==
    [][/\ ResolvesWindow(op'.name) =>
             /\ (ret' = NoHostWindow) <=> (~browserWin /\ ~mainWin)
             /\ (ret' # NoHostWindow) =>
                   \E k \in 1..Len(effects') : IsHostCall(effects'[k])
       /\ \A k \in 1..Len(effects') :
             IsHostCall(effects'[k]) =>
                 /\ browserWin => effects'[k].to = "browser"
                 /\ ~browserWin => (mainWin /\ effects'[k].to = "main")]_vars

\* With both windows there, webview-fail-load went to the overlay window.
C13_Witness ==
    /\ op.name = "did-fail-load" /\ browserWin /\ mainWin
    /\ effects = <<Call("browser", "webContents.send",
                        <<"webview-fail-load">> \o op.arg)>>

\* ------------------------------------------------------------------ home
\* C14 (as claimed): goHome() on an active view stops the navigation, then
\* clears the history, then destroys the view, and leaves no view, whatever
\* host windows exist; reload() on an active view keeps the view.
C14_GoHomeLeavesNoView ==
    [][/\ (op'.name = "goHome" /\ view # 0) =>
             /\ ret' = "undefined"
             /\ Len(effects') >= 3
             /\ effects'[1] = Call("view", "webContents.stop", <<>>)
             /\ effects'[2] = Call("view", "webContents.clearHistory", <<>>)
             /\ effects'[3] = Call("view", "webContents.close", <<>>)
             /\ view' = 0 /\ view \in closed'
       /\ (op'.name = "reload" /\ view # 0) =>
             /\ ret' = "undefined"
             /\ view' = view /\ view \notin closed'
             /\ effects' = <<Call("view", "webContents.reload", <<>>)>>]_vars

\* ------------------------------------------------------------------ extension
\* The handler of the source event of this step has ended in this step:
\* none is left waiting for the repository.
EndsHere == \A i \in 1..MaxSources :
                handlers[i].pc = "new" => handlers'[i].pc \in {"new", "done"}

LinkMessage(name) ==
    Call("view", "webContents.send", <<"webview-link-message">> \o name)

\* C15 (as claimed): with useExtension on, a source event is forwarded
\* unchanged as one webview-link-message on the channel of the view, and
\* there is no repository lookup, insert or rename and no
\* download-item-notifier for it.
C15_ExtensionForwardsEvery ==
    [][(op'.name = "source" /\ store.useExtension) =>
          /\ effects' = <<LinkMessage(op'.arg)>>
          /\ ret' = "undefined" /\ EndsHere
          /\ repo' = repo]_vars

\* C15 (amended): with useExtension on and a view set, a source event is
\* forwarded unchanged as one webview-link-message on the channel of the
\* view; with no view it is dropped and nothing is sent. Either way the
\* handler ends there: no repository lookup, insert or rename and no
\* download-item-notifier.
C15_ExtensionForwardsOnView ==
    [][(op'.name = "source" /\ store.useExtension) =>
          /\ effects' = (IF view # 0 THEN <<LinkMessage(op'.arg)>> ELSE <<>>)
          /\ ret' = "undefined" /\ EndsHere
          /\ repo' = repo]_vars

\* A source event went to the extension of the view.
C15_Witness ==
    /\ op.name = "source" /\ store.useExtension /\ view # 0
    /\ effects = <<LinkMessage(op.arg)>>
    /\ repo = <<>>

\* ------------------------------------------------------------------ injection
IsInject(e) == IsCall(e, "view", "webContents.executeJavaScript")

\* C16: a did-navigate handled on an active view with a host window does
\* not fault, whether the payload could be read or not: it has reset the
\* detector and sent webview-did-navigate, then at most called
\* executeJavaScript, and has left the view and the network policy as they
\* were. A handler is suspended only after such a reset and message. When
\* the injection settles, resolved or rejected, the handler ends without a
\* fault and without a call, the view and the network policy as they were.
C16_InjectionFailureSwallowed ==
    [][/\ (op'.name = "did-navigate" /\ view # 0 /\ window # NoHostWindow) =>
             /\ ret' \in {"undefined", "pending"}
             /\ Len(effects') \in {2, 3}
             /\ IsReset(effects'[1], op'.arg)
             /\ IsNavSend(effects'[2])
             /\ Len(effects') = 3 <=> ret' = "pending"
             /\ Len(effects') = 3 => IsInject(effects'[3])
             /\ view' = view /\ nviews' = nviews /\ closed' = closed
             /\ UNCHANGED policyVars
       /\ (~injecting /\ injecting') =>
             /\ op'.name = "did-navigate"
             /\ Len(effects') = 3 /\ IsNavSend(effects'[2])
       /\ (op'.name = "did-navigate.injected") =>
             /\ injecting
             /\ ret' = "undefined" /\ effects' = <<>>
             /\ view' = view /\ nviews' = nviews /\ closed' = closed
             /\ UNCHANGED policyVars]_vars

\* Reading the payload failed in a did-navigate on an active view: the
\* detector was reset, the host window was told, and the handler returned.
C16_Witness ==
    /\ op.name = "did-navigate" /\ view # 0 /\ ret = "undefined"
    /\ Len(effects) = 2
    /\ IsReset(effects[1], op.arg) /\ IsNavSend(effects[2])

\* ------------------------------------------------------------------ interleaving
\* The i-th source handler has looked the name up and has not yet inserted
\* and notified: it is suspended at one of its awaits.
Suspended(i) == handlers[i].pc \in {"find", "add"}

\* C17 (as claimed): a source handler runs to its end, awaits included,
\* before another handler or operation starts: while one is suspended
\* between its lookup and its insert and notification, no other source event
\* is handled, no other handler resumes, and neither destroyView nor loadURL
\* runs.
C17_HandlersRunToCompletion ==
    [][\A i \in 1..MaxSources :
          Suspended(i) =>
             /\ op'.name \notin {"source", "loadURL", "destroyView"}
             /\ op'.name \in {"source.found", "source.added"} =>
                    handlers'[i] # handlers[i]]_vars

\* ------------------------------------------------------------------ creation
\* The calls of a step that install the handler of that event on the view.
Installs(eff, event) ==
    {k \in 1..Len(eff) : eff[k] = Call("view", "webContents.on", <<event>>)}

\* C18 (as claimed): a view is constructed only when there is none, so that
\* every view that was constructed is this.view or is closed; and the view a
\* step constructs has its did-navigate, did-fail-load and window-open
\* handlers installed once each, is muted and has the user agent of the
\* isMobile setting of that moment.
C18_CreatedOnlyWhenAbsent ==
    [][/\ nviews' # nviews =>
             /\ view = 0
             /\ nviews' = nviews + 1 /\ view' = nviews'
             /\ Cardinality(Installs(effects', "did-navigate")) = 1
             /\ Cardinality(Installs(effects', "did-fail-load")) = 1
             /\ Cardinality(Positions(effects', "webContents.setWindowOpenHandler")) = 1
             /\ look'.muted
             /\ look'.ua = UserAgent(store.isMobile)
       /\ OpenSurfaces' \subseteq {view'}]_vars

\* ------------------------------------------------------------------ rule set
\* C19: the rule set is loaded once, the load started at construction: it
\* settles only from pending and never again. When it resolves, blocking
\* becomes the blockAds setting as it is read then, whatever setBlocking
\* calls came while it was pending, and stays so until a setBlocking call.
\* As long as the rule set is not loaded, pending or failed, no step changes
\* blocking.
C19_RuleSetLoadedOnce ==
    [][/\ (op'.name \in {"initBlocker.resolve", "initBlocker.reject"}) =>
             blocker = "pending" /\ blocker' # "pending"
       /\ blocker' # blocker => blocker = "pending"
       /\ (op'.name = "initBlocker.resolve") =>
             /\ blocker' = "loaded"
             /\ blocking' = store.blockAds
             /\ op'.arg = <<B2S(store.blockAds)>>
       /\ (blocker = "loaded" /\ op'.name # "setBlocking") => blocking' = blocking
       /\ blocker' # "loaded" => (blocking' = blocking /\ ~blocking)]_vars

\* The load has resolved with blockAds on, and blocking is on.
C19_Witness ==
    /\ op.name = "initBlocker.resolve" /\ op.arg = <<"true">>
    /\ blocker = "loaded" /\ blocking

\* ------------------------------------------------------------------ late events
\* C20 (as claimed): with no view set, a did-navigate, a window-open of a
\* view that is gone, or a source event does nothing: no call at all, so no
\* reset, no message to a host window and no repository lookup or insert,
\* and still no view; a view is set again only by init() or loadURL() of
\* the caller.
C20_LateEventsDoNothing ==
    [][/\ (view = 0 /\ op'.name \in {"did-navigate", "window-open", "source"}) =>
             /\ effects' = <<>>
             /\ view' = 0 /\ nviews' = nviews
             /\ repo' = repo
       /\ (view = 0 /\ view' # 0) => op'.name \in {"init", "loadURL"}]_vars
====
